---- MODULE Spec2Model ----
(***************************************************************************)
(* Key-management service: the crypto_keys and audit_logs tables, the key  *)
(* lifecycle handlers (routers/keys.py), the encrypt / decrypt handlers    *)
(* (routers/encrypt.py), the rotation sweep (utils/rotation.py), the       *)
(* master-key envelope and the algorithm dispatch (utils/crypto.py) and    *)
(* the audit signer (utils/audit.py).                                      *)
(*                                                                         *)
(* Byte strings are sequences of symbolic byte tokens (records):           *)
(*   [b |-> n]                 a plain byte with value n                   *)
(*   [rnd |-> r, idx |-> i]    byte i of the r-th secrets.token_bytes draw  *)
(*   [master |-> i]            byte i of MASTER_KEY                        *)
(*   [gk, gn, gi, gp]          byte gi of a stream-cipher (GCM / ChaCha)   *)
(*                             ciphertext of plain byte gp under key gk    *)
(*                             and nonce gn                                *)
(*   [tk, tn, tp, ti]          byte ti of the authentication tag of        *)
(*                             plaintext tp under key tk and nonce tn      *)
(*   [hk, hm, hh, hi]          byte hi of HMAC-hh of message hm, key hk    *)
(*   [junk |-> x]              a byte no honest computation produced       *)
(* Ciphers are ideal: a ciphertext byte opens only under the key, nonce    *)
(* and position it was made for, a tag verifies only for the key, nonce    *)
(* and content it was computed over. Inside a token a key, nonce or        *)
(* message is held by its Name.                                            *)
(*                                                                         *)
(* A byte string built by a function constructor is concatenated with the  *)
(* empty string, which makes it a sequence value before it is stored.      *)
(***************************************************************************)
EXTENDS Integers, Sequences, FiniteSets, TLC

\* ------------------------------------------------------------------ bounds
MaxKeys    == 2   \* rows ever inserted into crypto_keys
MaxVersion == 3   \* key_version stays <= MaxVersion
MaxTime    == 1   \* the clock runs over 0..MaxTime (days)
MaxAudit   == 4   \* rows of audit_logs
MaxDraws   == 8   \* secrets.token_bytes / key generations
MaxFaults  == 1   \* database commits that fail

\* --------------------------------------------------------- program constants
NonceLen == 12
TagLen   == 16
HeaderLen == 28
MasterKeyLen == 32
DefaultVersion == 1

None == [none |-> TRUE]

\* A function result: a value, or a raised exception.
Ok(v)      == [ok |-> TRUE, val |-> v]
Raise(e)   == [ok |-> FALSE, err |-> e]

\* Python slicing s[a:b] with 0-based a, b (clamped to the buffer).
Slice(s, a, b) ==
    LET lo == IF a > Len(s) THEN Len(s) ELSE a
        hi == IF b > Len(s) THEN Len(s) ELSE b
    IN  IF hi <= lo THEN << >> ELSE SubSeq(s, lo + 1, hi)

SliceFrom(s, a) == Slice(s, a, Len(s))

\* secrets.token_bytes(n): the n bytes of the r-th draw of the random source.
token_bytes(r, n) == [i \in 1..n |-> [rnd |-> r, idx |-> i]] \o << >>

\* utils/crypto.py MASTER_KEY[:32]
MASTER_KEY == [i \in 1..MasterKeyLen |-> [master |-> i]] \o << >>

\* The name a byte string goes by inside a ciphertext or tag byte: the draw it
\* is, the master key, or else the bytes themselves. Distinct byte strings
\* have distinct names.
Name(bytes) ==
    IF bytes = MASTER_KEY THEN [named |-> "MASTER_KEY"]
    ELSE IF /\ Len(bytes) > 0
            /\ DOMAIN bytes[1] = {"rnd", "idx"}
            /\ bytes = token_bytes(bytes[1].rnd, Len(bytes))
    THEN [draw |-> bytes[1].rnd, len |-> Len(bytes)]
    ELSE [raw |-> bytes]

\* ------------------------------------------------------------ key generator
SymmetricKeyLen(key_type) ==
    CASE key_type = "AES128GCM"        -> 16
      [] key_type = "AES256GCM"        -> 32
      [] key_type = "AES256CBC"        -> 32
      [] key_type = "ChaCha20Poly1305" -> 32
      [] key_type = "HMAC256"          -> 32
      [] key_type = "HMAC512"          -> 64
      [] OTHER                         -> 0

AsymmetricKeyTypes == {"RSA2048", "RSA4096", "ECC256", "ECC384", "Ed25519", "RSA"}

\* The PEM text of a private key: the type line and the key's own bytes.
PemLen == 4
PemEncode(key_type, r) ==
    <<[pem |-> key_type]>> \o token_bytes(r, PemLen)

\* generate_key(key_type), the r-th draw of the random source.
generate_key(key_type, r) ==
    IF SymmetricKeyLen(key_type) > 0
    THEN Ok(token_bytes(r, SymmetricKeyLen(key_type)))
    ELSE IF key_type \in AsymmetricKeyTypes
    THEN Ok(PemEncode(key_type, r))
    ELSE Raise("Unsupported key type")

\* ---------------------------------------------------------------- AES-GCM
AesKeySizes == {16, 24, 32}

StreamEncrypt(key, nonce, pt) ==
    LET k == Name(key)
        n == Name(nonce)
    IN  [i \in 1..Len(pt) |-> [gk |-> k, gn |-> n, gi |-> i, gp |-> pt[i]]] \o << >>

StreamDecryptByte(k, n, i, c) ==
    IF DOMAIN c = {"gk", "gn", "gi", "gp"}
    THEN IF c.gk = k /\ c.gn = n /\ c.gi = i THEN c.gp ELSE [junk |-> c]
    ELSE [junk |-> c]

StreamDecrypt(key, nonce, ct) ==
    LET k == Name(key)
        n == Name(nonce)
    IN  [i \in 1..Len(ct) |-> StreamDecryptByte(k, n, i, ct[i])] \o << >>

AuthTag(key, nonce, pt) ==
    LET k == Name(key)
        n == Name(nonce)
        p == Name(pt)
    IN  [i \in 1..TagLen |-> [tk |-> k, tn |-> n, tp |-> p, ti |-> i]] \o << >>

\* Cipher(AES(key), GCM(nonce)).encryptor(): update + finalize, and .tag
gcm_encrypt(key, nonce, pt) ==
    IF Len(key) \notin AesKeySizes THEN Raise("ValueError")
    ELSE Ok([ciphertext |-> StreamEncrypt(key, nonce, pt),
             tag        |-> AuthTag(key, nonce, pt)])

\* Cipher(AES(key), GCM(nonce, tag)).decryptor(): update + finalize
gcm_decrypt(key, nonce, tag, ct) ==
    IF Len(key) \notin AesKeySizes THEN Raise("ValueError")
    ELSE IF Len(tag) < TagLen \/ Len(nonce) = 0 THEN Raise("ValueError")
    ELSE LET pt == StreamDecrypt(key, nonce, ct)
         IN  IF tag = AuthTag(key, nonce, pt) THEN Ok(pt) ELSE Raise("InvalidTag")

\* ------------------------------------------------------ master-key envelope
\* A wrap that emits nonce || ciphertext || tag.
encrypt_key_with_master_tag_last(key_data, r) ==
    LET nonce == token_bytes(r, NonceLen)
        enc   == gcm_encrypt(MASTER_KEY, nonce, key_data).val
    IN  nonce \o enc.ciphertext \o enc.tag

\* encrypt_key_with_master(key_data), with the r-th draw as the nonce
encrypt_key_with_master(key_data, r) ==
    LET nonce == token_bytes(r, NonceLen)
        enc   == gcm_encrypt(MASTER_KEY, nonce, key_data).val
    IN  nonce \o enc.tag \o enc.ciphertext

decrypt_key_with_master(encrypted_data) ==
    LET nonce      == Slice(encrypted_data, 0, NonceLen)
        tag        == Slice(encrypted_data, NonceLen, HeaderLen)
        ciphertext == SliceFrom(encrypted_data, HeaderLen)
    IN  gcm_decrypt(MASTER_KEY, nonce, tag, ciphertext)

\* -------------------------------------------------------- algorithm engine
BlockLen == 16
Sha256Len == 32
Sha512Len == 64
SigLen == 64

\* str.encode('utf-8') of a text of ASCII code points
Utf8Encode(text) == [i \in 1..Len(text) |-> [b |-> text[i]]] \o << >>

IsTextByte(t) == DOMAIN t = {"b"} /\ t.b < 128

\* bytes.decode('utf-8')
Utf8Decode(bytes) ==
    IF \A i \in 1..Len(bytes) : IsTextByte(bytes[i])
    THEN Ok([i \in 1..Len(bytes) |-> bytes[i].b] \o << >>)
    ELSE Raise("UnicodeDecodeError")

MarkerHMAC    == Utf8Encode(<<124, 72, 77, 65, 67, 124>>)
MarkerECC     == Utf8Encode(<<124, 69, 67, 67, 124>>)
MarkerEd25519 == Utf8Encode(<<124, 69, 100, 50, 53, 53, 49, 57, 124>>)

\* The 0-based offsets at which sep occurs in s.
Occurrences(s, sep) ==
    {i \in 0..(Len(s) - Len(sep)) : Slice(s, i, i + Len(sep)) = sep}

Minimum(S) == CHOOSE x \in S : \A y \in S : x <= y

\* bytes.split(sep, 1): one part when sep does not occur, else the part
\* before the first occurrence and the part after it.
SplitOnce(s, sep) ==
    IF Occurrences(s, sep) = {} THEN <<s>>
    ELSE LET at == Minimum(Occurrences(s, sep))
         IN  <<Slice(s, 0, at), SliceFrom(s, at + Len(sep))>>

\* hmac.new(key, msg, hash).digest()
HmacDigest(key, msg, hash) ==
    LET k == Name(key)
        m == Name(msg)
    IN  [i \in 1..(IF hash = "sha256" THEN Sha256Len ELSE Sha512Len) |->
            [hk |-> k, hm |-> m, hh |-> hash, hi |-> i]] \o << >>

HashOf(key_type) == IF key_type = "HMAC256" THEN "sha256" ELSE "sha512"

\* serialization.load_pem_private_key(key_data)
IsPem(key_data) == Len(key_data) > 0 /\ DOMAIN key_data[1] = {"pem"}

\* private_key.sign(msg, ...)
Signature(key_data, msg) ==
    LET k == Name(key_data)
        m == Name(msg)
    IN  [i \in 1..SigLen |-> [sk |-> k, sm |-> m, si |-> i]] \o << >>

\* public_key.encrypt(msg, OAEP) / private_key.decrypt(ct, OAEP): the OAEP
\* block is one opaque token.
RsaEncrypt(key_data, msg) == <<[rk |-> Name(key_data), rp |-> msg]>>

RsaDecrypt(key_data, ct) ==
    IF Len(ct) = 1 /\ DOMAIN ct[1] = {"rk", "rp"} /\ ct[1].rk = Name(key_data)
    THEN Ok(ct[1].rp)
    ELSE Raise("ValueError")

\* sym_padding.PKCS7(128).padder()
Pkcs7Pad(data) ==
    LET n == BlockLen - (Len(data) % BlockLen)
    IN  data \o [i \in 1..n |-> [b |-> n]]

\* sym_padding.PKCS7(128).unpadder()
Pkcs7Unpad(data) ==
    IF Len(data) = 0 \/ Len(data) % BlockLen # 0 THEN Raise("ValueError")
    ELSE LET last == data[Len(data)]
         IN  IF /\ DOMAIN last = {"b"}
                /\ last.b \in 1..BlockLen
                /\ \A i \in (Len(data) - last.b + 1)..Len(data) : data[i] = last
             THEN Ok(Slice(data, 0, Len(data) - last.b))
             ELSE Raise("ValueError")

\* Cipher(AES(key), CBC(iv)).encryptor(): block j is chained on block j-1.
RECURSIVE CbcEncrypt(_, _, _)
CbcEncrypt(key, prev, padded) ==
    IF Len(padded) = 0 THEN << >>
    ELSE LET blk == Slice(padded, 0, BlockLen)
             k   == Name(key)
             v   == Name(prev)
             out == [i \in 1..BlockLen |->
                        [ck |-> k, cv |-> v, cb |-> blk, ci |-> i]] \o << >>
         IN  out \o CbcEncrypt(key, out, SliceFrom(padded, BlockLen))

RECURSIVE CbcDecrypt(_, _, _)
CbcDecrypt(key, prev, ct) ==
    IF Len(ct) = 0 THEN << >>
    ELSE LET blk  == Slice(ct, 0, BlockLen)
             k    == Name(key)
             v    == Name(prev)
             good == /\ DOMAIN blk[1] = {"ck", "cv", "cb", "ci"}
                     /\ blk = [i \in 1..BlockLen |->
                                 [ck |-> k, cv |-> v, cb |-> blk[1].cb, ci |-> i]]
             out  == IF good THEN blk[1].cb
                     ELSE [i \in 1..BlockLen |-> [junk |-> blk[i]]] \o << >>
         IN  out \o CbcDecrypt(key, blk, SliceFrom(ct, BlockLen))

\* encrypt_with_key(plaintext, key_data, key_type), drawing nonce / IV as
\* the r-th draw of the random source.
encrypt_with_key(plaintext, key_data, key_type, r) ==
    LET plaintext_bytes == Utf8Encode(plaintext) IN
    CASE key_type \in {"AES128GCM", "AES256GCM"} ->
            LET nonce == token_bytes(r, NonceLen)
                enc   == gcm_encrypt(key_data, nonce, plaintext_bytes)
            IN  IF enc.ok THEN Ok(nonce \o enc.val.tag \o enc.val.ciphertext)
                ELSE enc
      [] key_type = "AES256CBC" ->
            LET iv == token_bytes(r, BlockLen)
            IN  IF Len(key_data) \notin AesKeySizes THEN Raise("ValueError")
                ELSE Ok(iv \o CbcEncrypt(key_data, iv, Pkcs7Pad(plaintext_bytes)))
      [] key_type = "ChaCha20Poly1305" ->
            LET nonce == token_bytes(r, NonceLen)
            IN  IF Len(key_data) # 32 THEN Raise("ValueError")
                ELSE Ok(nonce \o StreamEncrypt(key_data, nonce, plaintext_bytes)
                              \o AuthTag(key_data, nonce, plaintext_bytes))
      [] key_type \in {"HMAC256", "HMAC512"} ->
            Ok(plaintext_bytes \o MarkerHMAC
                 \o HmacDigest(key_data, plaintext_bytes, HashOf(key_type)))
      [] key_type \in {"RSA2048", "RSA4096", "RSA"} ->
            IF IsPem(key_data) THEN Ok(RsaEncrypt(key_data, plaintext_bytes))
            ELSE Raise("ValueError")
      [] key_type \in {"ECC256", "ECC384"} ->
            IF IsPem(key_data)
            THEN Ok(plaintext_bytes \o MarkerECC \o Signature(key_data, plaintext_bytes))
            ELSE Raise("ValueError")
      [] key_type = "Ed25519" ->
            IF IsPem(key_data)
            THEN Ok(plaintext_bytes \o MarkerEd25519 \o Signature(key_data, plaintext_bytes))
            ELSE Raise("ValueError")
      [] OTHER -> Raise("Unsupported key type")

\* Mutant: the proof after the marker is not compared.
OpenMarkedUnverified(ciphertext, marker, key_data, key_type) ==
    LET parts == SplitOnce(ciphertext, marker)
    IN  IF Len(parts) # 2 THEN Raise("Invalid format") ELSE Utf8Decode(parts[1])

\* The marker-separated families of decrypt_with_key: split, check the proof,
\* decode the part before the marker.
OpenMarked(ciphertext, marker, key_data, key_type) ==
    LET parts == SplitOnce(ciphertext, marker)
        mac   == key_type \in {"HMAC256", "HMAC512"}
        proof == IF mac THEN HmacDigest(key_data, parts[1], HashOf(key_type))
                 ELSE Signature(key_data, parts[1])
    IN  IF Len(parts) # 2 THEN Raise("Invalid format")
        ELSE IF ~mac /\ ~IsPem(key_data) THEN Raise("ValueError")
        ELSE IF parts[2] # proof THEN Raise("verification failed")
        ELSE Utf8Decode(parts[1])

\* decrypt_with_key(ciphertext, key_data, key_type)
decrypt_with_key(ciphertext, key_data, key_type) ==
    CASE key_type \in {"AES128GCM", "AES256GCM"} ->
            LET dec == gcm_decrypt(key_data,
                                   Slice(ciphertext, 0, NonceLen),
                                   Slice(ciphertext, NonceLen, HeaderLen),
                                   SliceFrom(ciphertext, HeaderLen))
            IN  IF dec.ok THEN Utf8Decode(dec.val) ELSE dec
      [] key_type = "AES256CBC" ->
            LET iv     == Slice(ciphertext, 0, BlockLen)
                actual == SliceFrom(ciphertext, BlockLen)
            IN  IF Len(key_data) \notin AesKeySizes \/ Len(iv) # BlockLen
                   \/ Len(actual) % BlockLen # 0
                THEN Raise("ValueError")
                ELSE LET un == Pkcs7Unpad(CbcDecrypt(key_data, iv, actual))
                     IN  IF un.ok THEN Utf8Decode(un.val) ELSE un
      [] key_type = "ChaCha20Poly1305" ->
            LET nonce  == Slice(ciphertext, 0, NonceLen)
                actual == SliceFrom(ciphertext, NonceLen)
                body   == Slice(actual, 0, Len(actual) - TagLen)
                tag    == SliceFrom(actual, Len(actual) - TagLen)
                pt     == StreamDecrypt(key_data, nonce, body)
            IN  IF Len(key_data) # 32 \/ Len(nonce) # NonceLen THEN Raise("ValueError")
                ELSE IF Len(actual) < TagLen \/ tag # AuthTag(key_data, nonce, pt)
                THEN Raise("InvalidTag")
                ELSE Utf8Decode(pt)
      [] key_type \in {"HMAC256", "HMAC512"} ->
            OpenMarked(ciphertext, MarkerHMAC, key_data, key_type)
      [] key_type \in {"RSA2048", "RSA4096", "RSA"} ->
            IF ~IsPem(key_data) THEN Raise("ValueError")
            ELSE LET dec == RsaDecrypt(key_data, ciphertext)
                 IN  IF dec.ok THEN Utf8Decode(dec.val) ELSE dec
      [] key_type \in {"ECC256", "ECC384"} ->
            OpenMarked(ciphertext, MarkerECC, key_data, key_type)
      [] key_type = "Ed25519" ->
            OpenMarked(ciphertext, MarkerEd25519, key_data, key_type)
      [] OTHER -> Raise("Unsupported key type")

\* base64.b64encode / base64.b64decode of the request and response bodies
B64Encode(bytes) == [b64 |-> bytes]

B64Decode(text) ==
    IF DOMAIN text = {"b64"} THEN Ok(text.b64) ELSE Raise("binascii.Error")

NotBase64 == [text |-> "%%"]

\* ------------------------------------------------------------ audit signer
AUDIT_SECRET == "audit-secret-key-change-this"

Null == << >>
Some(x) == <<x>>

\* json.dumps(log_data, sort_keys=True, separators=(',', ':'))
CanonicalJson(log_data) ==
    <<"action", log_data.action, "details", log_data.details,
      "ip_address", log_data.ip_address, "resource_id", log_data.resource_id,
      "resource_type", log_data.resource_type, "status", log_data.status,
      "timestamp", log_data.timestamp, "user_agent", log_data.user_agent,
      "user_id", log_data.user_id>>

\* Mutant: the signature leaves the timestamp out.
calculate_hmac_undated(log_data) ==
    [secret |-> AUDIT_SECRET,
     data |-> CanonicalJson([log_data EXCEPT !.timestamp = Null])]

\* calculate_hmac(log_data)
calculate_hmac(log_data) ==
    [secret |-> AUDIT_SECRET, data |-> CanonicalJson(log_data)]

\* datetime.isoformat()
IsoFormat(t) == [iso |-> t]

\* The AuditLog row log_audit builds at time t (details and user_agent are
\* never passed by the handlers and stay None).
AuditRow(user_id, action, resource_type, resource_id, status, t) ==
    LET log_data == [user_id |-> user_id, action |-> action,
                     resource_type |-> resource_type, resource_id |-> resource_id,
                     ip_address |-> "127.0.0.1", status |-> status,
                     details |-> Null, user_agent |-> Null,
                     timestamp |-> IsoFormat(t)]
    IN  [user_id |-> user_id, action |-> action, resource_type |-> resource_type,
         resource_id |-> resource_id, ip_address |-> "127.0.0.1",
         user_agent |-> Null, status |-> status, details |-> Null,
         hmac_signature |-> calculate_hmac(log_data), timestamp |-> t]

\* verify_audit_log(log)
verify_audit_log(log) ==
    LET log_data == [user_id |-> log.user_id, action |-> log.action,
                     resource_type |-> log.resource_type,
                     resource_id |-> log.resource_id,
                     ip_address |-> log.ip_address, status |-> log.status,
                     details |-> log.details, user_agent |-> log.user_agent,
                     timestamp |-> IsoFormat(log.timestamp)]
    IN  calculate_hmac(log_data) = log.hmac_signature

\* Mutant: the row overwrites the latest row instead of being added.
log_audit_overwriting(log, user_id, action, resource_type, resource_id, status, t, commit_ok) ==
    LET row == AuditRow(user_id, action, resource_type, resource_id, status, t)
    IN  IF ~commit_ok THEN log
        ELSE IF Len(log) = 0 THEN <<row>>
        ELSE [log EXCEPT ![Len(log)] = row]

\* log_audit(db, ...): db.add(audit_log); db.commit(). With commit_ok false
\* the commit raises and no row is stored.
log_audit(log, user_id, action, resource_type, resource_id, status, t, commit_ok) ==
    IF commit_ok
    THEN Append(log, AuditRow(user_id, action, resource_type, resource_id, status, t))
    ELSE log

\* ------------------------------------------------------------------- state
VARIABLES
    keys,      \* table crypto_keys: id -> row, or None
    next_id,   \* the serial primary key of crypto_keys
    audit,     \* table audit_logs, in insertion order
    now,       \* datetime.utcnow(), in days
    draws,     \* draws taken from the random source so far
    faults,    \* database commits that failed so far
    held,      \* the last encrypt response a client keeps, with its plaintext
    last,      \* the last response returned to a caller
    sessions,  \* requests in flight, each with its own database session
    probe      \* a library function called on its own: its inputs and results

vars == <<keys, next_id, audit, now, draws, faults, held, last, sessions, probe>>

KeyIds == 1..MaxKeys

\* Requests that may be in flight at once (one SessionLocal() each).
Sessions == {1, 2}

\* The authenticated caller (verify_token, require_role: an admin).
Admin == 1

\* Request inputs.
KeyTypeInputs == {"AES128GCM", "HMAC256", "DES"}
Plaintexts == {<<104, 105>>, <<97, 124, 72, 77, 65, 67, 124, 98>>}
RotationDaysInputs == {0, 1}

\* A tag list that also lets an unknown tag through.
supported_key_types_open ==
    {"AES128GCM", "AES256GCM", "AES256CBC", "ChaCha20Poly1305",
     "RSA", "RSA2048", "RSA4096", "ECC256", "ECC384", "Ed25519",
     "HMAC256", "HMAC512", "DES"}

supported_key_types ==
    {"AES128GCM", "AES256GCM", "AES256CBC", "ChaCha20Poly1305",
     "RSA", "RSA2048", "RSA4096", "ECC256", "ECC384", "Ed25519",
     "HMAC256", "HMAC512"}

\* CryptoKey(name=, key_type=, encrypted_key=, created_by=) with the column
\* defaults of db.py, inserted at time t.
CryptoKey(name, key_type, encrypted_key, created_by, t) ==
    [name |-> name, key_type |-> key_type, encrypted_key |-> encrypted_key,
     key_version |-> DefaultVersion, is_active |-> TRUE, is_revoked |-> FALSE,
     created_by |-> created_by, created_at |-> t,
     rotated_at |-> Null, revoked_at |-> Null]

\* db.query(CryptoKey).filter(CryptoKey.id == key_id).first()
Exists(id) == id \in KeyIds /\ keys[id] # None

\* A request and the response to it: the handler and the key id asked for,
\* the ciphertext sent (decrypt), the HTTP status, and the response body's
\* key_version and plaintext; rotation_days is what auto_rotate_keys was
\* called with and rotated_count what it returns.
Response(op, key_id, status, key_version, plaintext) ==
    [op |-> op, key_id |-> key_id, status |-> status,
     key_version |-> key_version, plaintext |-> plaintext,
     sent |-> None, rotation_days |-> 0, rotated_count |-> 0]

\* A session with no request in flight.
Idle ==
    [pc |-> "idle", key_id |-> 0, loaded |-> None, overlapped |-> FALSE,
     ciphertext |-> None, response |-> Response("none", 0, 0, 0, << >>)]

\* Failed commits among the commits a handler reached.
Failed(flags) == Cardinality({i \in DOMAIN flags : ~flags[i]})

Init ==
    /\ keys = [id \in KeyIds |-> None]
    /\ next_id = 1
    /\ audit = << >>
    /\ now = 0
    /\ draws = 0
    /\ faults = 0
    /\ held = None
    /\ last = Response("none", 0, 0, 0, << >>)
    /\ sessions = [s \in Sessions |-> Idle]
    /\ probe = None

\* The clock advances between requests.
Tick ==
    /\ now < MaxTime
    /\ now' = now + 1
    /\ UNCHANGED <<keys, next_id, audit, draws, faults, held, last, sessions, probe>>

\* POST /api/keys/
create_key(name, key_type, commit_ok, audit_ok, audit2_ok) ==
    /\ next_id <= MaxKeys
    /\ Len(audit) < MaxAudit
    /\ draws + 2 <= MaxDraws
    /\ IF key_type \notin supported_key_types
       THEN /\ commit_ok /\ audit_ok /\ audit2_ok
            /\ last' = Response("create_key", 0, 400, 0, << >>)
            /\ UNCHANGED <<keys, next_id, audit, now, draws, faults, held, sessions, probe>>
       ELSE LET raw_key == generate_key(key_type, draws + 1)
                stored  == raw_key.ok /\ commit_ok
                db_key  == CryptoKey(name, key_type,
                                     encrypt_key_with_master(raw_key.val, draws + 2),
                                     Admin, now)
            IN  /\ (~commit_ok => audit_ok)
                /\ (stored /\ audit_ok => audit2_ok)
                /\ faults + Failed(<<commit_ok, audit_ok, audit2_ok>>) <= MaxFaults
                /\ faults' = faults + Failed(<<commit_ok, audit_ok, audit2_ok>>)
                /\ draws' = draws + 2
                /\ keys' = IF stored THEN [keys EXCEPT ![next_id] = db_key] ELSE keys
                /\ next_id' = IF stored THEN next_id + 1 ELSE next_id
                /\ IF stored /\ audit_ok
                   THEN /\ audit' = log_audit(audit, Admin, "create_key", "key",
                                              Some(next_id), "success", now, TRUE)
                        /\ last' = Response("create_key", next_id, 200,
                                            db_key.key_version, << >>)
                   ELSE /\ audit' = log_audit(audit, Admin, "create_key", "key",
                                              Null, "failure", now, audit2_ok)
                        /\ last' = Response("create_key", 0, 500, 0, << >>)
                /\ UNCHANGED <<now, held, sessions, probe>>

\* Mutant: the revoked check of rotate_key left out.
RotateRefusedNever(db_key) == FALSE

\* if db_key.is_revoked: 400 "Cannot rotate a revoked key"
RotateRefused(db_key) == db_key.is_revoked

\* Mutant: the rotation forgets to increment the version.
RotatedRowSameVersion(row, loaded, encrypted_key, t) ==
    [row EXCEPT !.encrypted_key = encrypted_key, !.rotated_at = Some(t)]

\* Mutant: the rotation also restamps created_at.
RotatedRowRecreated(row, loaded, encrypted_key, t) ==
    [row EXCEPT !.encrypted_key = encrypted_key,
                !.key_version = loaded.key_version + 1,
                !.rotated_at = Some(t), !.created_at = t]

\* The UPDATE a rotation flushes: only the three modified columns, the new
\* version computed from the version the session loaded.
RotatedRow(row, loaded, encrypted_key, t) ==
    [row EXCEPT !.encrypted_key = encrypted_key,
                !.key_version = loaded.key_version + 1,
                !.rotated_at = Some(t)]

\* POST /api/keys/{key_id}/rotate
rotate_key(key_id, commit_ok, audit_ok, audit2_ok) ==
    /\ Len(audit) < MaxAudit
    /\ IF ~Exists(key_id)
       THEN /\ commit_ok /\ audit_ok /\ audit2_ok
            /\ last' = Response("rotate_key", key_id, 404, 0, << >>)
            /\ UNCHANGED <<keys, next_id, audit, now, draws, faults, held, sessions, probe>>
       ELSE IF RotateRefused(keys[key_id])
       THEN /\ commit_ok /\ audit_ok /\ audit2_ok
            /\ last' = Response("rotate_key", key_id, 400, 0, << >>)
            /\ UNCHANGED <<keys, next_id, audit, now, draws, faults, held, sessions, probe>>
       ELSE LET db_key  == keys[key_id]
                raw_key == generate_key(db_key.key_type, draws + 1)
                stored  == raw_key.ok /\ commit_ok
                new_key == RotatedRow(db_key, db_key,
                              encrypt_key_with_master(raw_key.val, draws + 2), now)
            IN  /\ db_key.key_version < MaxVersion
                /\ draws + 2 <= MaxDraws
                /\ (~commit_ok => audit_ok) /\ (stored /\ audit_ok => audit2_ok)
                /\ faults + Failed(<<commit_ok, audit_ok, audit2_ok>>) <= MaxFaults
                /\ faults' = faults + Failed(<<commit_ok, audit_ok, audit2_ok>>)
                /\ draws' = draws + 2
                /\ keys' = IF stored THEN [keys EXCEPT ![key_id] = new_key] ELSE keys
                /\ IF stored /\ audit_ok
                   THEN /\ audit' = log_audit(audit, Admin, "rotate_key", "key",
                                              Some(key_id), "success", now, TRUE)
                        /\ last' = Response("rotate_key", key_id, 200,
                                            new_key.key_version, << >>)
                   ELSE /\ audit' = log_audit(audit, Admin, "rotate_key", "key",
                                              Some(key_id), "failure", now, audit2_ok)
                        /\ last' = Response("rotate_key", key_id, 500, 0, << >>)
                /\ UNCHANGED <<next_id, now, held, sessions, probe>>

\* Mutant: a revocation that leaves the record active.
RevokedRowStillActive(row, t) ==
    [row EXCEPT !.is_revoked = TRUE, !.revoked_at = Some(t)]

\* The UPDATE a revocation flushes.
RevokedRow(row, t) ==
    [row EXCEPT !.is_revoked = TRUE, !.is_active = FALSE, !.revoked_at = Some(t)]

\* POST /api/keys/{key_id}/revoke
revoke_key(key_id, commit_ok, audit_ok) ==
    /\ Len(audit) < MaxAudit
    /\ IF ~Exists(key_id)
       THEN /\ commit_ok /\ audit_ok
            /\ last' = Response("revoke_key", key_id, 404, 0, << >>)
            /\ UNCHANGED <<keys, next_id, audit, now, draws, faults, held, sessions, probe>>
       ELSE LET new_key == RevokedRow(keys[key_id], now)
            IN  /\ (~commit_ok => audit_ok)
                /\ faults + Failed(<<commit_ok, audit_ok>>) <= MaxFaults
                /\ faults' = faults + Failed(<<commit_ok, audit_ok>>)
                /\ keys' = IF commit_ok THEN [keys EXCEPT ![key_id] = new_key] ELSE keys
                /\ audit' = log_audit(audit, Admin, "revoke_key", "key",
                                      Some(key_id), "success", now, commit_ok /\ audit_ok)
                /\ last' = IF commit_ok /\ audit_ok
                           THEN Response("revoke_key", key_id, 200,
                                         new_key.key_version, << >>)
                           ELSE Response("revoke_key", key_id, 500, 0, << >>)
                /\ UNCHANGED <<next_id, now, draws, held, sessions, probe>>

\* DELETE /api/keys/{key_id}
delete_key(key_id, commit_ok, audit_ok) ==
    /\ Len(audit) < MaxAudit
    /\ IF ~Exists(key_id)
       THEN /\ commit_ok /\ audit_ok
            /\ last' = Response("delete_key", key_id, 404, 0, << >>)
            /\ UNCHANGED <<keys, next_id, audit, now, draws, faults, held, sessions, probe>>
       ELSE /\ (~commit_ok => audit_ok)
            /\ faults + Failed(<<commit_ok, audit_ok>>) <= MaxFaults
            /\ faults' = faults + Failed(<<commit_ok, audit_ok>>)
            /\ keys' = IF commit_ok THEN [keys EXCEPT ![key_id] = None] ELSE keys
            /\ audit' = log_audit(audit, Admin, "delete_key", "key",
                                  Some(key_id), "success", now, commit_ok /\ audit_ok)
            /\ last' = IF commit_ok /\ audit_ok
                       THEN Response("delete_key", key_id, 200, 0, << >>)
                       ELSE Response("delete_key", key_id, 500, 0, << >>)
            /\ UNCHANGED <<next_id, now, draws, held, sessions, probe>>

\* Draws encrypt_with_key takes from the random source (a nonce or an IV).
SealDraws(key_type) ==
    IF key_type \in {"AES128GCM", "AES256GCM", "AES256CBC", "ChaCha20Poly1305"}
    THEN 1 ELSE 0

\* if not db_key.is_active or db_key.is_revoked: 400
EncryptRefused(db_key) == ~db_key.is_active \/ db_key.is_revoked

\* Mutant: decrypt refuses every record that is not active.
DecryptRefusedInactive(db_key) == ~db_key.is_active

\* if not db_key.is_active and not db_key.is_revoked: 400
DecryptRefused(db_key) == ~db_key.is_active /\ ~db_key.is_revoked

\* POST /api/encrypt
encrypt_data(key_id, plaintext, audit_ok, audit2_ok) ==
    /\ Len(audit) < MaxAudit
    /\ faults + Failed(<<audit_ok, audit2_ok>>) <= MaxFaults
    /\ faults' = faults + Failed(<<audit_ok, audit2_ok>>)
    /\ UNCHANGED <<keys, next_id, now, sessions, probe>>
    /\ IF ~Exists(key_id) \/ EncryptRefused(keys[key_id])
       THEN /\ audit2_ok
            /\ audit' = log_audit(audit, Admin, "encrypt", "data", Some(key_id),
                                  "failure", now, audit_ok)
            /\ last' = Response("encrypt", key_id,
                                IF ~audit_ok THEN 500
                                ELSE IF ~Exists(key_id) THEN 404 ELSE 400,
                                0, << >>)
            /\ UNCHANGED <<draws, held>>
       ELSE LET db_key     == keys[key_id]
                raw_key    == decrypt_key_with_master(db_key.encrypted_key)
                ciphertext == IF raw_key.ok
                              THEN encrypt_with_key(plaintext, raw_key.val,
                                                    db_key.key_type, draws + 1)
                              ELSE raw_key
                used       == IF raw_key.ok THEN SealDraws(db_key.key_type) ELSE 0
            IN  /\ draws + used <= MaxDraws
                /\ draws' = draws + used
                /\ (ciphertext.ok /\ audit_ok) => audit2_ok
                /\ ~ciphertext.ok => audit_ok
                /\ IF ciphertext.ok /\ audit_ok
                   THEN /\ audit' = log_audit(audit, Admin, "encrypt", "data",
                                              Some(key_id), "success", now, TRUE)
                        /\ last' = Response("encrypt", key_id, 200,
                                            db_key.key_version, << >>)
                        /\ held' = [key_id |-> key_id,
                                    ciphertext |-> B64Encode(ciphertext.val),
                                    plaintext |-> plaintext,
                                    key_version |-> db_key.key_version]
                   ELSE /\ audit' = log_audit(audit, Admin, "encrypt", "data",
                                              Some(key_id), "failure", now, audit2_ok)
                        /\ last' = Response("encrypt", key_id, 500, 0, << >>)
                        /\ UNCHANGED held

\* POST /api/decrypt
decrypt_data(key_id, ciphertext, audit_ok, audit2_ok) ==
    /\ Len(audit) < MaxAudit
    /\ faults + Failed(<<audit_ok, audit2_ok>>) <= MaxFaults
    /\ faults' = faults + Failed(<<audit_ok, audit2_ok>>)
    /\ UNCHANGED <<keys, next_id, now, draws, held, sessions, probe>>
    /\ IF ~Exists(key_id) \/ DecryptRefused(keys[key_id])
       THEN /\ audit2_ok
            /\ audit' = log_audit(audit, Admin, "decrypt", "data", Some(key_id),
                                  "failure", now, audit_ok)
            /\ last' = [Response("decrypt", key_id,
                                 IF ~audit_ok THEN 500
                                 ELSE IF ~Exists(key_id) THEN 404 ELSE 400,
                                 0, << >>) EXCEPT !.sent = ciphertext]
       ELSE LET db_key    == keys[key_id]
                raw_key   == decrypt_key_with_master(db_key.encrypted_key)
                bytes     == B64Decode(ciphertext)
                plaintext == IF ~raw_key.ok THEN raw_key
                             ELSE IF ~bytes.ok THEN bytes
                             ELSE decrypt_with_key(bytes.val, raw_key.val,
                                                   db_key.key_type)
            IN  /\ (plaintext.ok /\ audit_ok) => audit2_ok
                /\ ~plaintext.ok => audit_ok
                /\ IF plaintext.ok /\ audit_ok
                   THEN /\ audit' = log_audit(audit, Admin, "decrypt", "data",
                                              Some(key_id), "success", now, TRUE)
                        /\ last' = [Response("decrypt", key_id, 200,
                                             db_key.key_version, plaintext.val)
                                        EXCEPT !.sent = ciphertext]
                   ELSE /\ audit' = log_audit(audit, Admin, "decrypt", "data",
                                              Some(key_id), "failure", now, audit2_ok)
                        /\ last' = [Response("decrypt", key_id, 500, 0, << >>)
                                        EXCEPT !.sent = ciphertext]

\* should_rotate_key(key, rotation_days) evaluated at time t
should_rotate_key(key, rotation_days, t) ==
    IF key.is_revoked \/ ~key.is_active THEN FALSE
    ELSE LET last_rotation == IF key.rotated_at # Null THEN key.rotated_at[1]
                              ELSE key.created_at
             rotation_threshold == t - rotation_days
         IN  last_rotation < rotation_threshold

\* Mutant: a rotation whose commit failed is reported as done.
rotate_key_if_needed_unchecked(key, rotation_days, t, d, commit_ok) ==
    IF ~should_rotate_key(key, rotation_days, t)
    THEN [row |-> key, rotated |-> FALSE, draws |-> d]
    ELSE LET raw_key == generate_key(key.key_type, d + 1)
             new_key == RotatedRow(key, key,
                           encrypt_key_with_master(raw_key.val, d + 2), t)
         IN  [row |-> IF commit_ok THEN new_key ELSE key, rotated |-> TRUE,
              draws |-> d + 2]

\* rotate_key_if_needed(db, key, rotation_days) at time t, with d draws taken
\* so far: the row as the database holds it afterwards, the returned flag and
\* the draws taken.
rotate_key_if_needed(key, rotation_days, t, d, commit_ok) ==
    IF ~should_rotate_key(key, rotation_days, t)
    THEN [row |-> key, rotated |-> FALSE, draws |-> d]
    ELSE LET raw_key == generate_key(key.key_type, d + 1)
             new_key == RotatedRow(key, key,
                           encrypt_key_with_master(raw_key.val, d + 2), t)
         IN  IF raw_key.ok /\ commit_ok
             THEN [row |-> new_key, rotated |-> TRUE, draws |-> d + 2]
             ELSE [row |-> key, rotated |-> FALSE,
                   draws |-> IF raw_key.ok THEN d + 2 ELSE d]

\* The loop of auto_rotate_keys over the rows from id on, in id order; the
\* commit of the rotation of a row in fail_ids fails.
RECURSIVE SweepFrom(_, _, _, _, _, _)
SweepFrom(id, table, rotation_days, t, d, fail_ids) ==
    IF id > MaxKeys THEN [keys |-> table, draws |-> d, rotated_count |-> 0]
    ELSE IF table[id] = None \/ ~table[id].is_active \/ table[id].is_revoked
    THEN SweepFrom(id + 1, table, rotation_days, t, d, fail_ids)
    ELSE LET one  == rotate_key_if_needed(table[id], rotation_days, t, d,
                                          id \notin fail_ids)
             rest == SweepFrom(id + 1, [table EXCEPT ![id] = one.row],
                               rotation_days, t, one.draws, fail_ids)
         IN  [rest EXCEPT !.rotated_count = @ + (IF one.rotated THEN 1 ELSE 0)]

\* The rows the sweep finds due.
Due(rotation_days) ==
    {id \in KeyIds : Exists(id) /\ should_rotate_key(keys[id], rotation_days, now)}

\* auto_rotate_keys(db, rotation_days)
auto_rotate_keys(rotation_days, fail_ids) ==
    LET swept == SweepFrom(1, keys, rotation_days, now, draws, fail_ids)
    IN  /\ fail_ids \subseteq Due(rotation_days)
        /\ \A id \in Due(rotation_days) : keys[id].key_version < MaxVersion
        /\ swept.draws <= MaxDraws
        /\ faults + Cardinality(fail_ids) <= MaxFaults
        /\ faults' = faults + Cardinality(fail_ids)
        /\ keys' = swept.keys
        /\ draws' = swept.draws
        /\ last' = [Response("auto_rotate_keys", 0, 200, 0, << >>)
                        EXCEPT !.rotation_days = rotation_days,
                               !.rotated_count = swept.rotated_count]
        /\ UNCHANGED <<next_id, audit, now, held, sessions, probe>>

HeldCiphertexts == IF held = None THEN {} ELSE {held.ciphertext}

\* ---------------------------------------------------- requests in flight
\* rotate_key up to its checks: the session loads the row.
rotate_key_load(s, key_id) ==
    /\ sessions[s].pc = "idle"
    /\ Len(audit) < MaxAudit
    /\ IF ~Exists(key_id)
       THEN sessions' = [sessions EXCEPT ![s] =
                [Idle EXCEPT !.response = Response("rotate_key", key_id, 404, 0, << >>)]]
       ELSE IF RotateRefused(keys[key_id])
       THEN sessions' = [sessions EXCEPT ![s] =
                [Idle EXCEPT !.response = Response("rotate_key", key_id, 400, 0, << >>)]]
       ELSE /\ keys[key_id].key_version < MaxVersion
            /\ sessions' = [sessions EXCEPT ![s] =
                   [Idle EXCEPT !.pc = "rotate_key", !.key_id = key_id,
                                !.loaded = keys[key_id]]]
    /\ UNCHANGED <<keys, next_id, audit, now, draws, faults, held, last, probe>>

\* Another session is between its load of the same row and its commit.
Overlaps(s) ==
    \E o \in Sessions \ {s} :
        sessions[o].pc = "rotate_key" /\ sessions[o].key_id = sessions[s].key_id

\* rotate_key from its try block on: generate, UPDATE, commit, refresh, audit,
\* respond. The UPDATE of a row deleted since the load matches no row and
\* raises.
rotate_key_commit(s) ==
    LET key_id  == sessions[s].key_id
        db_key  == sessions[s].loaded
        raw_key == generate_key(db_key.key_type, draws + 1)
        stored  == raw_key.ok /\ Exists(key_id)
        new_key == RotatedRow(keys[key_id], db_key,
                      encrypt_key_with_master(raw_key.val, draws + 2), now)
    IN  /\ sessions[s].pc = "rotate_key"
        /\ Len(audit) < MaxAudit
        /\ draws + 2 <= MaxDraws
        /\ draws' = draws + 2
        /\ keys' = IF stored THEN [keys EXCEPT ![key_id] = new_key] ELSE keys
        /\ audit' = log_audit(audit, Admin, "rotate_key", "key", Some(key_id),
                              IF stored THEN "success" ELSE "failure", now, TRUE)
        /\ sessions' = [o \in Sessions |->
              IF o = s
              THEN [Idle EXCEPT
                      !.key_id = key_id, !.loaded = db_key,
                      !.overlapped = sessions[s].overlapped \/ Overlaps(s),
                      !.response = IF stored
                                   THEN Response("rotate_key", key_id, 200,
                                                 new_key.key_version, << >>)
                                   ELSE Response("rotate_key", key_id, 500, 0, << >>)]
              ELSE IF sessions[o].pc = "rotate_key" /\ sessions[o].key_id = key_id
              THEN [sessions[o] EXCEPT !.overlapped = TRUE]
              ELSE sessions[o]]
        /\ UNCHANGED <<next_id, now, faults, held, last, probe>>

\* encrypt_data up to the call of log_audit: the session loads the row,
\* unwraps its key and seals the plaintext. The refusals and a failed seal are
\* answered at once.
encrypt_data_load(s, key_id, plaintext) ==
    /\ sessions[s].pc = "idle"
    /\ Len(audit) < MaxAudit
    /\ UNCHANGED <<keys, next_id, now, faults, held, last, probe>>
    /\ IF ~Exists(key_id) \/ EncryptRefused(keys[key_id])
       THEN /\ audit' = log_audit(audit, Admin, "encrypt", "data", Some(key_id),
                                  "failure", now, TRUE)
            /\ sessions' = [sessions EXCEPT ![s] =
                  [Idle EXCEPT !.response =
                      Response("encrypt", key_id,
                               IF ~Exists(key_id) THEN 404 ELSE 400, 0, << >>)]]
            /\ UNCHANGED draws
       ELSE LET db_key     == keys[key_id]
                raw_key    == decrypt_key_with_master(db_key.encrypted_key)
                ciphertext == IF raw_key.ok
                              THEN encrypt_with_key(plaintext, raw_key.val,
                                                    db_key.key_type, draws + 1)
                              ELSE raw_key
                used       == IF raw_key.ok THEN SealDraws(db_key.key_type) ELSE 0
            IN  /\ draws + used <= MaxDraws
                /\ draws' = draws + used
                /\ IF ciphertext.ok
                   THEN /\ sessions' = [sessions EXCEPT ![s] =
                              [Idle EXCEPT !.pc = "encrypt", !.key_id = key_id,
                                           !.loaded = db_key,
                                           !.ciphertext = ciphertext.val]]
                        /\ UNCHANGED audit
                   ELSE /\ audit' = log_audit(audit, Admin, "encrypt", "data",
                                              Some(key_id), "failure", now, TRUE)
                        /\ sessions' = [sessions EXCEPT ![s] =
                              [Idle EXCEPT !.response =
                                  Response("encrypt", key_id, 500, 0, << >>)]]

\* encrypt_data from log_audit on: the commit of the audit row expires the
\* session's objects, and db_key.id and db_key.key_version are read from the
\* row as the database holds it now. A row deleted since the load raises, and
\* the except branch writes a failure row.
encrypt_data_respond(s) ==
    LET key_id  == sessions[s].key_id
        written == log_audit(audit, Admin, "encrypt", "data", Some(key_id),
                             "success", now, TRUE)
    IN  /\ sessions[s].pc = "encrypt"
        /\ Len(audit) + 1 < MaxAudit
        /\ audit' = IF Exists(key_id) THEN written
                    ELSE log_audit(written, Admin, "encrypt", "data",
                                   Some(key_id), "failure", now, TRUE)
        /\ sessions' = [sessions EXCEPT ![s] =
              [Idle EXCEPT
                 !.key_id = key_id, !.loaded = sessions[s].loaded,
                 !.ciphertext = sessions[s].ciphertext,
                 !.response = IF Exists(key_id)
                              THEN Response("encrypt", key_id, 200,
                                            keys[key_id].key_version, << >>)
                              ELSE Response("encrypt", key_id, 500, 0, << >>)]]
        /\ UNCHANGED <<keys, next_id, now, draws, faults, held, last, probe>>

\* ------------------------------------------------------------ specifications
\* Requests served one at a time, the database never failing.
Next ==
    \/ Tick
    \/ \E key_type \in KeyTypeInputs : create_key("k", key_type, TRUE, TRUE, TRUE)
    \/ \E key_id \in KeyIds : rotate_key(key_id, TRUE, TRUE, TRUE)
    \/ \E key_id \in KeyIds : revoke_key(key_id, TRUE, TRUE)
    \/ \E key_id \in KeyIds : delete_key(key_id, TRUE, TRUE)
    \/ \E key_id \in KeyIds, plaintext \in Plaintexts :
          encrypt_data(key_id, plaintext, TRUE, TRUE)
    \/ \E key_id \in KeyIds, ciphertext \in HeldCiphertexts \cup {NotBase64} :
          decrypt_data(key_id, ciphertext, TRUE, TRUE)
    \/ \E rotation_days \in RotationDaysInputs : auto_rotate_keys(rotation_days, {})

Spec == Init /\ [][Next]_vars

\* Rotations in flight at once, each in its own session, interleaved with
\* creations and revocations.
NextConcurrent ==
    \/ Tick
    \/ create_key("k", "AES128GCM", TRUE, TRUE, TRUE)
    \/ \E key_id \in KeyIds : revoke_key(key_id, TRUE, TRUE)
    \/ \E s \in Sessions, key_id \in KeyIds : rotate_key_load(s, key_id)
    \/ \E s \in Sessions : rotate_key_commit(s)

SpecConcurrent == Init /\ [][NextConcurrent]_vars

\* Requests served one at a time, with database commits that may fail.
NextFaults ==
    \/ Tick
    \/ \E commit_ok, audit_ok, audit2_ok \in BOOLEAN :
          create_key("k", "AES128GCM", commit_ok, audit_ok, audit2_ok)
    \/ \E key_id \in KeyIds, commit_ok, audit_ok, audit2_ok \in BOOLEAN :
          rotate_key(key_id, commit_ok, audit_ok, audit2_ok)
    \/ \E rotation_days \in RotationDaysInputs, fail_ids \in SUBSET KeyIds :
          auto_rotate_keys(rotation_days, fail_ids)

SpecFaults == Init /\ [][NextFaults]_vars

\* Encrypt requests in flight, each in its own session, interleaved with
\* creations, rotations and deletions.
NextInFlight ==
    \/ create_key("k", "AES128GCM", TRUE, TRUE, TRUE)
    \/ \E key_id \in KeyIds : rotate_key(key_id, TRUE, TRUE, TRUE)
    \/ \E key_id \in KeyIds : delete_key(key_id, TRUE, TRUE)
    \/ \E s \in Sessions, key_id \in KeyIds, plaintext \in Plaintexts :
          encrypt_data_load(s, key_id, plaintext)
    \/ \E s \in Sessions : encrypt_data_respond(s)

SpecInFlight == Init /\ [][NextInFlight]_vars

\* ------------------------------------------------- the library on its own
\* generate_key, encrypt_key_with_master / decrypt_key_with_master and
\* encrypt_with_key / decrypt_with_key called directly, one key type and one
\* payload per run; a byte of the sealed buffer may be changed before it is
\* opened. create_key is called with the same key type.
AeadTypes == {"AES128GCM", "AES256GCM", "ChaCha20Poly1305"}
MacTypes  == {"HMAC256", "HMAC512"}
SignTypes == {"ECC256", "ECC384", "Ed25519"}

EngineKeyTypes == supported_key_types \cup {"DES"}

\* Payloads: empty, short, longer than a cipher block, and one holding each
\* separator marker.
EnginePayloads ==
    {<< >>, <<104, 105>>, [i \in 1..(BlockLen + 1) |-> 120] \o << >>,
     <<97, 124, 72, 77, 65, 67, 124, 98>>,
     <<97, 124, 69, 67, 67, 124, 98>>,
     <<97, 124, 69, 100, 50, 53, 53, 49, 57, 124, 98>>}

\* The separator marker encrypt_with_key writes for a key type.
MarkerOf(key_type) ==
    IF key_type \in MacTypes THEN MarkerHMAC
    ELSE IF key_type = "Ed25519" THEN MarkerEd25519
    ELSE MarkerECC

\* A byte changed to another value.
Flip(byte) ==
    IF DOMAIN byte = {"b"} THEN [b |-> (byte.b + 1) % 256] ELSE [junk |-> byte]

\* The key the calls are made with: the generated one, or some bytes when
\* the generator refused the key type.
KeyData == IF probe.key.ok THEN probe.key.val ELSE Utf8Encode(<<107>>)

InitEngine ==
    /\ keys = [id \in KeyIds |-> None]
    /\ next_id = 1
    /\ audit = << >>
    /\ now = 0
    /\ draws = 0
    /\ faults = 0
    /\ held = None
    /\ last = Response("none", 0, 0, 0, << >>)
    /\ sessions = [s \in Sessions |-> Idle]
    /\ probe \in {[pc |-> "input", key_type |-> key_type, plaintext |-> plaintext,
                   key |-> None, wrapped |-> None, unwrapped |-> None,
                   sealed |-> None, at |-> 0, opened |-> None] :
                     key_type \in EngineKeyTypes, plaintext \in EnginePayloads}

Generate ==
    /\ probe.pc = "input"
    /\ probe' = [probe EXCEPT !.pc = "key",
                              !.key = generate_key(probe.key_type, draws + 1)]
    /\ draws' = draws + 1
    /\ UNCHANGED <<keys, next_id, audit, now, faults, held, last, sessions>>

Wrap ==
    /\ probe.pc = "key" /\ probe.key.ok
    /\ probe' = [probe EXCEPT !.pc = "wrapped",
                              !.wrapped = encrypt_key_with_master(probe.key.val, draws + 1)]
    /\ draws' = draws + 1
    /\ UNCHANGED <<keys, next_id, audit, now, faults, held, last, sessions>>

Unwrap ==
    /\ probe.pc = "wrapped"
    /\ probe' = [probe EXCEPT !.pc = "unwrapped",
                              !.unwrapped = decrypt_key_with_master(probe.wrapped)]
    /\ UNCHANGED <<keys, next_id, audit, now, draws, faults, held, last, sessions>>

Seal ==
    /\ probe.pc = "unwrapped" \/ (probe.pc = "key" /\ ~probe.key.ok)
    /\ probe' = [probe EXCEPT !.pc = "sealed",
                              !.sealed = encrypt_with_key(probe.plaintext, KeyData,
                                                          probe.key_type, draws + 1)]
    /\ draws' = draws + SealDraws(probe.key_type)
    /\ UNCHANGED <<keys, next_id, audit, now, faults, held, last, sessions>>

Tamper(i) ==
    /\ probe.pc = "sealed" /\ probe.sealed.ok /\ probe.at = 0
    /\ i \in 1..Len(probe.sealed.val)
    /\ probe' = [probe EXCEPT !.at = i,
                              !.sealed = Ok([probe.sealed.val EXCEPT ![i] = Flip(@)])]
    /\ UNCHANGED <<keys, next_id, audit, now, draws, faults, held, last, sessions>>

Open ==
    /\ probe.pc = "sealed"
    /\ probe' = [probe EXCEPT !.pc = "opened",
                              !.opened = decrypt_with_key(
                                  IF probe.sealed.ok THEN probe.sealed.val
                                  ELSE Utf8Encode(probe.plaintext),
                                  KeyData, probe.key_type)]
    /\ UNCHANGED <<keys, next_id, audit, now, draws, faults, held, last, sessions>>

\* The positions of the sealed buffer.
SealedPositions ==
    IF probe.pc = "sealed" /\ probe.sealed.ok THEN 1..Len(probe.sealed.val) ELSE {}

NextEngine ==
    \/ Generate
    \/ Wrap
    \/ Unwrap
    \/ Seal
    \/ \E i \in SealedPositions : Tamper(i)
    \/ Open
    \/ create_key("k", probe.key_type, TRUE, TRUE, TRUE)

SpecEngine == InitEngine /\ [][NextEngine]_vars

\* ------------------------------------------------------------------ claims
\* The step is a call of handler op (Tick alone leaves last as it is and
\* moves the clock).
Step(op) == now' = now /\ last'.op = op

\* C1: a record that is Revoked stays Revoked through every later call, and
\* its version, wrapped key and rotated_at never change again (the record
\* goes away only by an administrative delete).
C1_RevokedIsTerminal ==
    [][\A id \in KeyIds :
          (Exists(id) /\ keys[id].is_revoked) =>
             IF keys'[id] = None
             THEN last'.op = "delete_key" /\ last'.key_id = id /\ last'.status = 200
             ELSE /\ keys'[id].is_revoked /\ ~keys'[id].is_active
                  /\ keys'[id].key_version = keys[id].key_version
                  /\ keys'[id].encrypted_key = keys[id].encrypted_key
                  /\ keys'[id].rotated_at = keys[id].rotated_at]_vars

\* C1 witness: a rotate was refused on a revoked record that had been rotated
\* before its revocation.
C1_Witness ==
    \E id \in KeyIds :
        /\ Exists(id) /\ keys[id].is_revoked /\ keys[id].key_version = 2
        /\ last.op = "rotate_key" /\ last.key_id = id /\ last.status = 400

\* C2: encrypt succeeds only on a record that is active and not revoked and
\* fails on a revoked record without producing a ciphertext; decrypt is not
\* refused on an active or on a revoked record, and is refused (400) exactly
\* for a record that is neither.
C2_AccessForUse ==
    [][/\ Step("encrypt") =>
            /\ last'.status = 200 =>
                  /\ Exists(last'.key_id)
                  /\ keys[last'.key_id].is_active /\ ~keys[last'.key_id].is_revoked
            /\ (Exists(last'.key_id) /\ keys[last'.key_id].is_revoked) =>
                  last'.status = 400 /\ held' = held
       /\ Step("decrypt") =>
            /\ (/\ Exists(last'.key_id)
                /\ keys[last'.key_id].is_active \/ keys[last'.key_id].is_revoked) =>
                  last'.status \notin {400, 404}
            /\ last'.status = 400 <=>
                  /\ Exists(last'.key_id)
                  /\ ~keys[last'.key_id].is_active /\ ~keys[last'.key_id].is_revoked]_vars

\* C2 witness: a decrypt succeeded under a revoked record.
C2_Witness ==
    /\ last.op = "decrypt" /\ last.status = 200
    /\ Exists(last.key_id) /\ keys[last.key_id].is_revoked

\* C3: rotate of an absent id answers 404 (NotFound), rotate of a revoked
\* record answers 400 (InvalidState), and in both cases the key table is left
\* as it was.
C3_RotateFailsCleanly ==
    [][Step("rotate_key") =>
          /\ ~Exists(last'.key_id) =>
                last'.status = 404 /\ keys' = keys /\ next_id' = next_id
          /\ (Exists(last'.key_id) /\ keys[last'.key_id].is_revoked) =>
                last'.status = 400 /\ keys' = keys /\ next_id' = next_id]_vars

\* C3 witness: a rotate of an absent id was answered 404 while another record
\* is stored.
C3_Witness ==
    /\ last.op = "rotate_key" /\ last.status = 404 /\ ~Exists(last.key_id)
    /\ \E id \in KeyIds : Exists(id)

\* C4: a record starts at version 1; its version never decreases; it changes
\* only in a rotate or sweep step and then by exactly 1; every successful
\* rotate and every sweep rotation increases it by 1; revoke, encrypt and
\* decrypt leave it alone.
C4_VersionMonotone ==
    [][\A id \in KeyIds :
          /\ (keys[id] = None /\ keys'[id] # None) =>
                keys'[id].key_version = 1 /\ Step("create_key")
          /\ (keys[id] # None /\ keys'[id] # None) =>
                /\ keys'[id].key_version >= keys[id].key_version
                /\ keys'[id].key_version # keys[id].key_version =>
                      /\ keys'[id].key_version = keys[id].key_version + 1
                      /\ Step("rotate_key") \/ Step("auto_rotate_keys")
                /\ (Step("rotate_key") /\ last'.status = 200 /\ last'.key_id = id) =>
                      keys'[id].key_version = keys[id].key_version + 1
                /\ (Step("auto_rotate_keys") /\ keys'[id] # keys[id]) =>
                      keys'[id].key_version = keys[id].key_version + 1]_vars

\* C4 witness: a record rotated twice.
C4_Witness == \E id \in KeyIds : Exists(id) /\ keys[id].key_version = 3

\* The record id was rotated in this step, by rotate_key or by the sweep.
Rotated(id) ==
    /\ Exists(id) /\ keys'[id] # None
    /\ \/ Step("rotate_key") /\ last'.status = 200 /\ last'.key_id = id
       \/ Step("auto_rotate_keys") /\ keys'[id] # keys[id]

\* C5: a successful rotation replaces wrapped_key by a wrap of material drawn
\* in that step for the record's own algorithm, adds 1 to the version, stamps
\* rotated_at, and changes no other field; a successful rotate_key names a
\* stored record and changes no other record.
C5_RotateFrame ==
    [][/\ \A id \in KeyIds : Rotated(id) =>
            LET old == keys[id]
                new == keys'[id]
                m   == decrypt_key_with_master(new.encrypted_key)
            IN  /\ old.is_active /\ ~old.is_revoked
                /\ new.encrypted_key # old.encrypted_key
                /\ m.ok
                /\ \E r \in (draws + 1)..draws' :
                      m.val = generate_key(old.key_type, r).val
                /\ m.val # decrypt_key_with_master(old.encrypted_key).val
                /\ new.key_version = old.key_version + 1
                /\ new.rotated_at = Some(now)
                /\ new = [old EXCEPT !.encrypted_key = new.encrypted_key,
                                     !.key_version = new.key_version,
                                     !.rotated_at = new.rotated_at]
       /\ (Step("rotate_key") /\ last'.status = 200) =>
            /\ Exists(last'.key_id)
            /\ \A o \in KeyIds \ {last'.key_id} : keys'[o] = keys[o]]_vars

\* C5 witness: a rotate succeeded on a record created a day earlier.
C5_Witness ==
    /\ last.op = "rotate_key" /\ last.status = 200
    /\ keys[last.key_id].created_at = 0
    /\ keys[last.key_id].rotated_at = Some(1)

\* C6: revoke of an already revoked record answers success and leaves every
\* field of the record, revoked_at included, as the first revoke left it;
\* revoke of an absent id answers 404 (NotFound).
C6_RevokeIdempotent ==
    [][Step("revoke_key") =>
          /\ ~Exists(last'.key_id) => last'.status = 404 /\ keys' = keys
          /\ (Exists(last'.key_id) /\ keys[last'.key_id].is_revoked) =>
                last'.status = 200 /\ keys' = keys]_vars

\* Both sessions have answered a rotate of the same record with success, and
\* the two requests overlapped (one committed between the other's load and
\* commit).
BothRotated(s, o) ==
    /\ s # o
    /\ sessions[s].pc = "idle" /\ sessions[o].pc = "idle"
    /\ sessions[s].response.op = "rotate_key" /\ sessions[o].response.op = "rotate_key"
    /\ sessions[s].response.status = 200 /\ sessions[o].response.status = 200
    /\ sessions[s].key_id = sessions[o].key_id
    /\ sessions[s].overlapped /\ sessions[o].overlapped

\* C7: two overlapping rotations of one record never both succeed with the
\* same resulting version: when both have answered success, the versions they
\* report differ and the stored version is 2 above the version the earlier
\* of them loaded.
C7_ConcurrentRotationsDiffer ==
    \A s, o \in Sessions :
        BothRotated(s, o) =>
            /\ sessions[s].response.key_version # sessions[o].response.key_version
            /\ keys[sessions[s].key_id].key_version =
                  2 + Minimum({sessions[s].loaded.key_version,
                               sessions[o].loaded.key_version})

\* C8: a decrypt of the ciphertext an encrypt returned answers the original
\* plaintext as long as the record has not been rotated since the encrypt,
\* revoked or not; once the record has been rotated the decrypt fails.
C8_CiphertextLifetime ==
    [][(/\ Step("decrypt")
        /\ held # None
        /\ last'.sent = held.ciphertext
        /\ last'.key_id = held.key_id
        /\ Exists(held.key_id)) =>
          IF keys[held.key_id].key_version = held.key_version
          THEN last'.status = 200 /\ last'.plaintext = held.plaintext
          ELSE last'.status # 200]_vars

\* The step appended exactly the rows of the set S of (action, key id) pairs,
\* each once and with outcome status, and nothing else.
Appended(S, status) ==
    /\ Len(audit') = Len(audit) + Cardinality(S)
    /\ SubSeq(audit', 1, Len(audit)) = audit
    /\ \A p \in S :
          Cardinality({i \in (Len(audit) + 1)..Len(audit') :
                          /\ audit'[i].action = p[1]
                          /\ audit'[i].resource_id = Some(p[2])
                          /\ audit'[i].status = status}) = 1

\* C9: each successful create, rotate, revoke and delete appends exactly one
\* audit record naming the action and the key id with outcome success, and a
\* sweep appends one such record for each record it rotates.
C9_MutationsAudited ==
    [][/\ \A op \in {"create_key", "rotate_key", "revoke_key", "delete_key"} :
            (Step(op) /\ last'.status = 200) =>
                Appended({<<op, last'.key_id>>}, "success")
       /\ Step("auto_rotate_keys") =>
            Appended({<<"rotate_key", id>> : id \in {k \in KeyIds : keys'[k] # keys[k]}},
                     "success")]_vars

\* C10: whenever encrypt, decrypt, create, rotate or revoke answers an error,
\* the step has appended an audit record for that action with outcome
\* failure.
C10_FailuresAudited ==
    [][\A op \in {"encrypt", "decrypt", "create_key", "rotate_key", "revoke_key"} :
          (Step(op) /\ last'.status # 200) =>
             /\ Len(audit') = Len(audit) + 1
             /\ audit'[Len(audit')].action = op
             /\ audit'[Len(audit')].status = "failure"]_vars

\* C11: for every supported key type, every generated key and every payload,
\* opening what was sealed returns the payload: the empty one, one longer
\* than a cipher block, and one holding the separator marker included.
C11_SealOpenRoundTrip ==
    (/\ probe # None /\ probe.pc = "opened" /\ probe.at = 0
     /\ probe.key_type \in supported_key_types) =>
        /\ probe.sealed.ok
        /\ probe.opened.ok
        /\ probe.opened.val = probe.plaintext

\* A sealed buffer of an AEAD, MAC or signature key type was opened after
\* one of its bytes had been changed.
OpenedTampered ==
    /\ probe # None /\ probe.pc = "opened" /\ probe.at # 0
    /\ probe.key_type \in AeadTypes \cup MacTypes \cup SignTypes

\* The exceptions that report a failed authentication, and the one that
\* reports a buffer without its separator marker.
IntegrityErrors == {"InvalidTag", "verification failed"}
FormatErrors == {"Invalid format"}

\* The positions of the separator marker encrypt_with_key wrote.
WrittenMarker ==
    (Len(probe.plaintext) + 1)..(Len(probe.plaintext) + Len(MarkerOf(probe.key_type)))

\* C12 as stated: changing any single byte of a sealed AEAD, MAC or signature
\* buffer (the separator marker included) makes open fail with an integrity
\* error.
C12_TamperIsIntegrityError ==
    OpenedTampered => ~probe.opened.ok /\ probe.opened.err \in IntegrityErrors

\* C12, amended: open of a buffer with one byte changed never succeeds; it
\* fails with an integrity error, except that a changed byte of the separator
\* marker of a MAC or signature buffer may make it fail with a format error.
C12_TamperDetected ==
    OpenedTampered =>
        /\ ~probe.opened.ok
        /\ \/ probe.opened.err \in IntegrityErrors
           \/ /\ probe.opened.err \in FormatErrors
              /\ probe.key_type \in MacTypes \cup SignTypes
              /\ probe.at \in WrittenMarker

\* C12 witness: a MAC buffer with the first byte of its separator marker
\* changed was refused with a format error.
C12_Witness ==
    /\ OpenedTampered /\ probe.key_type = "HMAC256"
    /\ probe.plaintext = <<104, 105>> /\ probe.at = Len(probe.plaintext) + 1
    /\ ~probe.opened.ok /\ probe.opened.err \in FormatErrors

\* The rows that differ from a stored audit row in one field.
OneFieldChanged(row) ==
    {[row EXCEPT !.user_id = @ + 1],
     [row EXCEPT !.action = "tampered"],
     [row EXCEPT !.resource_type = "tampered"],
     [row EXCEPT !.resource_id = IF @ = Null THEN Some(1) ELSE Null],
     [row EXCEPT !.resource_id = IF @ = Null THEN Some(2) ELSE Some(@[1] + 1)],
     [row EXCEPT !.status = IF @ = "success" THEN "failure" ELSE "success"],
     [row EXCEPT !.details = Some("tampered")],
     [row EXCEPT !.timestamp = @ + 1]}

\* Two audit rows alike in everything but the timestamp (and the signature).
DifferOnlyInTimestamp(a, b) ==
    /\ a.timestamp # b.timestamp
    /\ [a EXCEPT !.timestamp = b.timestamp,
                 !.hmac_signature = b.hmac_signature] = b

\* C13: every stored audit row verifies; a stored row with any one field
\* changed does not; two rows that differ only in timestamp carry different
\* signatures.
C13_AuditTamperEvidence ==
    /\ \A i \in 1..Len(audit) :
          /\ verify_audit_log(audit[i])
          /\ \A changed \in OneFieldChanged(audit[i]) : ~verify_audit_log(changed)
    /\ \A i, j \in 1..Len(audit) :
          DifferOnlyInTimestamp(audit[i], audit[j]) =>
              audit[i].hmac_signature # audit[j].hmac_signature

\* C13 witness: two stored rows that differ only in timestamp.
C13_Witness ==
    \E i, j \in 1..Len(audit) : DifferOnlyInTimestamp(audit[i], audit[j])

\* C14: the audit trail only grows at its end: every step leaves the rows
\* already stored in place and unchanged, a delete of the key they refer to
\* included.
C14_AuditAppendOnly ==
    [][/\ Len(audit') >= Len(audit)
       /\ SubSeq(audit', 1, Len(audit)) = audit]_vars

\* C14 witness: a key was deleted and the row of its creation is still
\* stored.
C14_Witness ==
    /\ last.op = "delete_key" /\ last.status = 200 /\ ~Exists(last.key_id)
    /\ \E i \in 1..Len(audit) :
          audit[i].action = "create_key" /\ audit[i].resource_id = Some(last.key_id)

\* The records the step changed.
Changed == {id \in KeyIds : Exists(id) /\ keys'[id] # keys[id]}

MinMasterKeyLen == 32

\* A text of n copies of the character c.
Repeat(c, n) == [i \in 1..n |-> c] \o << >>

\* The environment values tried: unset, or a text of hexadecimal digits
\* ('a') or of other characters ('z').
SecretLens == {0, 31, 32, 62, 63, 64}
MasterKeyEnvs ==
    {Null} \cup {Some(Repeat(c, n)) : c \in {97, 122}, n \in SecretLens}
AuditSecretEnvs == {Null, Some(Repeat(122, 0)), Some(Repeat(122, 8)),
                    Some(Repeat(122, 32))}

\* os.getenv(name) and os.getenv(name, default)
getenv(value, default) == IF value = Null THEN default ELSE value

IsHexDigit(c) == c \in (48..57) \cup (65..70) \cup (97..102)

HexValue(c) ==
    IF c \in 48..57 THEN c - 48
    ELSE IF c \in 65..70 THEN c - 55
    ELSE c - 87

\* bytes.fromhex(text)
fromhex(text) ==
    IF (\A i \in 1..Len(text) : IsHexDigit(text[i])) /\ Len(text) % 2 = 0
    THEN Ok([i \in 1..(Len(text) \div 2) |->
                [b |-> 16 * HexValue(text[2 * i - 1]) + HexValue(text[2 * i])]]
            \o << >>)
    ELSE Raise("ValueError")

\* The module-level code of utils/crypto.py: the master key, or the error
\* the import ends with.
LoadMasterKey(env) ==
    LET value == getenv(env, Null)
    IN  IF value = Null \/ value[1] = << >>
        THEN Raise("MASTER_KEY environment variable must be set")
        ELSE LET key == IF fromhex(value[1]).ok THEN fromhex(value[1]).val
                        ELSE Slice(Utf8Encode(value[1]), 0, MasterKeyLen)
             IN  IF Len(key) < MinMasterKeyLen
                 THEN Raise("MASTER_KEY must be at least 32 bytes")
                 ELSE Ok(key)

\* "audit-secret-key-change-this"
DefaultAuditSecret ==
    <<97, 117, 100, 105, 116, 45, 115, 101, 99, 114, 101, 116, 45, 107, 101,
      121, 45, 99, 104, 97, 110, 103, 101, 45, 116, 104, 105, 115>>

\* The module-level code of utils/audit.py.
LoadAuditSecret(env) == getenv(env, Some(DefaultAuditSecret))[1]

InitStartup ==
    /\ keys = [id \in KeyIds |-> None]
    /\ next_id = 1
    /\ audit = << >>
    /\ now = 0
    /\ draws = 0
    /\ faults = 0
    /\ held = None
    /\ last = Response("none", 0, 0, 0, << >>)
    /\ sessions = [s \in Sessions |-> Idle]
    /\ probe \in {[pc |-> "start", env_MASTER_KEY |-> m, env_AUDIT_SECRET |-> a,
                   AUDIT_SECRET |-> None, MASTER_KEY |-> None] :
                     m \in MasterKeyEnvs, a \in AuditSecretEnvs}

\* from routers import auth: utils.audit is imported first
ImportAudit ==
    /\ probe.pc = "start"
    /\ probe' = [probe EXCEPT !.pc = "audit",
                              !.AUDIT_SECRET = LoadAuditSecret(probe.env_AUDIT_SECRET)]
    /\ UNCHANGED <<keys, next_id, audit, now, draws, faults, held, last, sessions>>

\* from routers import keys: utils.crypto is imported
ImportCrypto ==
    /\ probe.pc = "audit"
    /\ LET loaded == LoadMasterKey(probe.env_MASTER_KEY)
       IN  probe' = [probe EXCEPT !.pc = IF loaded.ok THEN "crypto" ELSE "failed",
                                  !.MASTER_KEY = loaded]
    /\ UNCHANGED <<keys, next_id, audit, now, draws, faults, held, last, sessions>>

\* The app is built, startup() creates the tables, requests are served.
Serve ==
    /\ probe.pc = "crypto"
    /\ probe' = [probe EXCEPT !.pc = "serving"]
    /\ UNCHANGED <<keys, next_id, audit, now, draws, faults, held, last, sessions>>

NextStartup ==
    \/ ImportAudit
    \/ ImportCrypto
    \/ Serve

SpecStartup == InitStartup /\ [][NextStartup]_vars

\* The time a record was last given key material.
LastRotation(key) ==
    IF key.rotated_at # Null THEN key.rotated_at[1] ELSE key.created_at

\* C16: a record is due for rotation exactly when it is active, not revoked,
\* and its key material is at least max_age old; at an age of exactly max_age
\* it is due.
C16_EvaluateDue ==
    \A id \in KeyIds, rotation_days \in RotationDaysInputs :
        Exists(id) =>
            (should_rotate_key(keys[id], rotation_days, now) <=>
                /\ keys[id].is_active /\ ~keys[id].is_revoked
                /\ now - LastRotation(keys[id]) >= rotation_days)

\* The harness has wrapped and unwrapped the key material it generated.
Unwrapped ==
    /\ probe # None /\ probe.pc \in {"unwrapped", "sealed", "opened"}
    /\ probe.key.ok

\* The buffer is nonce (12 bytes) || tag (16 bytes) || ciphertext of key_data
\* under the master key.
WrappedLayout(buffer, key_data) ==
    LET nonce == Slice(buffer, 0, NonceLen)
    IN  /\ Len(buffer) = NonceLen + TagLen + Len(key_data)
        /\ \E r \in 1..draws : nonce = token_bytes(r, NonceLen)
        /\ Slice(buffer, NonceLen, NonceLen + TagLen)
               = AuthTag(MASTER_KEY, nonce, key_data)
        /\ SliceFrom(buffer, NonceLen + TagLen)
               = StreamEncrypt(MASTER_KEY, nonce, key_data)

\* C17: key material of every size the generator produces comes back from
\* unwrap(wrap(K)) unchanged, the wrapped buffer being nonce || tag ||
\* ciphertext; every stored wrapped key unwraps to material the generator
\* produced for the record's own key type.
C17_WrapRoundTrip ==
    /\ Unwrapped =>
          /\ WrappedLayout(probe.wrapped, probe.key.val)
          /\ probe.unwrapped = Ok(probe.key.val)
    /\ \A id \in KeyIds :
          Exists(id) =>
             LET raw_key == decrypt_key_with_master(keys[id].encrypted_key)
             IN  /\ raw_key.ok
                 /\ \E r \in 1..draws :
                       raw_key = generate_key(keys[id].key_type, r)

\* C17 witness: a 64-byte MAC key came back from the wrap round trip, and a
\* record of the same key type is stored.
C17_Witness ==
    /\ Unwrapped /\ probe.pc = "unwrapped" /\ probe.key_type = "HMAC512"
    /\ Len(probe.key.val) = Sha512Len
    /\ probe.unwrapped = Ok(probe.key.val)
    /\ Exists(1) /\ keys[1].key_type = "HMAC512"

\* The harness has run the generator, seal, open.
Generated == probe.pc \in {"key", "wrapped", "unwrapped", "sealed", "opened"}
Sealed    == probe.pc \in {"sealed", "opened"}
Opened    == probe.pc = "opened"

UnsupportedAlgorithm == Raise("Unsupported key type")

\* C18: a key type outside supported_key_types is refused by create_key
\* (bad request, no record stored), by generate_key, by encrypt_with_key and
\* by decrypt_with_key; a key type inside it is accepted by create_key and
\* none of the generator, seal and open refuses it as unsupported.
C18_ClosedTagSet ==
    probe # None =>
        IF probe.key_type \notin supported_key_types
        THEN /\ \A id \in KeyIds : ~Exists(id)
             /\ last.op = "create_key" => last.status = 400
             /\ Generated => probe.key = UnsupportedAlgorithm
             /\ Sealed => probe.sealed = UnsupportedAlgorithm
             /\ Opened => probe.opened = UnsupportedAlgorithm
        ELSE /\ last.op = "create_key" =>
                   /\ last.status = 200 /\ Exists(last.key_id)
                   /\ keys[last.key_id].key_type = probe.key_type
             /\ Generated => probe.key.ok
             /\ Sealed => probe.sealed # UnsupportedAlgorithm
             /\ Opened => probe.opened # UnsupportedAlgorithm

\* C18 witness: for the unknown tag the generator, seal and open have all
\* refused, and so has create_key.
C18_Witness ==
    /\ probe # None /\ probe.key_type = "DES" /\ Opened
    /\ probe.opened = UnsupportedAlgorithm
    /\ last.op = "create_key" /\ last.status = 400
    /\ \A id \in KeyIds : ~Exists(id)

\* C19: the process serves requests only if the master secret is set and at
\* least 32 bytes long and the audit secret is set and not empty.
C19_StartupFailsFast ==
    probe.pc = "serving" =>
        /\ probe.env_MASTER_KEY # Null
        /\ Len(probe.env_MASTER_KEY[1]) >= MinMasterKeyLen
        /\ Len(probe.MASTER_KEY.val) >= MinMasterKeyLen
        /\ probe.env_AUDIT_SECRET # Null
        /\ Len(probe.env_AUDIT_SECRET[1]) > 0

\* The master-secret half of C19 alone.
C19_MasterChecked ==
    probe.pc = "serving" =>
        /\ probe.env_MASTER_KEY # Null
        /\ Len(probe.env_MASTER_KEY[1]) >= MinMasterKeyLen
        /\ Len(probe.MASTER_KEY.val) >= MinMasterKeyLen

\* C20: when create_key or rotate_key answers with an error, or a sweep
\* rotation is not counted as rotated, the key store is as it was before the
\* call: no record was added and the target record is unchanged.
C20_FailAtomically ==
    [][/\ (Step("create_key") \/ Step("rotate_key")) /\ last'.status # 200 =>
             keys' = keys /\ next_id' = next_id
       /\ Step("auto_rotate_keys") =>
             last'.rotated_count = Cardinality(Changed)]_vars

\* C21: no Revoked record carries a rotation (version, wrapped key and
\* rotated_at are written together, at rotated_at) later than its revoked_at.
C21_NoRotationAfterRevoke ==
    \A id \in KeyIds :
        (Exists(id) /\ keys[id].is_revoked /\ keys[id].rotated_at # Null) =>
            /\ keys[id].revoked_at # Null
            /\ keys[id].rotated_at[1] <= keys[id].revoked_at[1]

\* C22: the key_version an encrypt response carries is the version of the
\* row whose key material sealed the plaintext.
C22_VersionOfMaterialUsed ==
    \A s \in Sessions :
        (sessions[s].response.op = "encrypt" /\ sessions[s].response.status = 200) =>
            sessions[s].response.key_version = sessions[s].loaded.key_version

\* C23: every key record is either (active, not revoked) or (not active,
\* revoked), revoked_at is set exactly when it is revoked, and decrypt never
\* meets the state (not active, not revoked) it refuses with 400.
C23_TwoStates ==
    /\ \A id \in KeyIds :
          Exists(id) =>
             /\ keys[id].is_active <=> ~keys[id].is_revoked
             /\ keys[id].revoked_at # Null <=> keys[id].is_revoked
    /\ last.op = "decrypt" => last.status # 400

\* C23 witness: of two records created and rotated, one by rotate_key and
\* then revoked, the other by the sweep, the first is (not active, revoked)
\* and the second (active, not revoked).
C23_Witness ==
    /\ Exists(1) /\ keys[1].is_revoked /\ ~keys[1].is_active
    /\ keys[1].revoked_at # Null /\ keys[1].key_version = 2
    /\ Exists(2) /\ keys[2].is_active /\ ~keys[2].is_revoked
    /\ keys[2].revoked_at = Null /\ keys[2].key_version = 2
    /\ last.op = "auto_rotate_keys" /\ last.rotated_count = 1
====
